---- MODULE Spec2Model ----
(***************************************************************************)
(* A model of AgentSmith.py: the loader and schema validator, the random   *)
(* user-agent generator, the post-validator and the entry point main().    *)
(*                                                                         *)
(* A Python value is a record of one field named after its type: a dict   *)
(* holds a function from its keys, a list a sequence, a str a string.     *)
(* A function of the program is an operator returning [exc, val]: exc is   *)
(* "none" on a normal return, else the class name of the raised exception. *)
(***************************************************************************)
EXTENDS Integers, Sequences, FiniteSets, TLC

(* ---------------------------- bounds ---------------------------------- *)
MaxBrowsers == 2   \* longest "browsers" list of an input catalog
MaxOs == 2         \* longest "os" list of a browser
MaxVerLen == 2     \* longest synthetic OS version string given to get_os_string

(* ------------------------- Python values ------------------------------ *)
\* one field, named after the type, holding the payload
Dict(f) == [dict |-> f]
List(s) == [list |-> s]
Str(s) == [str |-> s]
Num(n) == [num |-> n]
None == [null |-> 0]

\* isinstance(x, dict), isinstance(x, list), isinstance(x, str)
IsDict(x) == "dict" \in DOMAIN x
IsList(x) == "list" \in DOMAIN x
IsStr(x) == "str" \in DOMAIN x
IsNum(x) == "num" \in DOMAIN x
IsNone(x) == "null" \in DOMAIN x
\* k in d, d[k]
Has(d, k) == k \in DOMAIN d.dict
Get(d, k) == d.dict[k]

\* bool(x)
Truthy(x) ==
  CASE IsDict(x) -> DOMAIN x.dict # {}
    [] IsList(x) -> Len(x.list) > 0
    [] IsStr(x) -> Len(x.str) > 0
    [] IsNum(x) -> x.num # 0
    [] IsNone(x) -> FALSE

\* str(x) as an f-string placeholder renders it (scalars only)
PyStr(x) ==
  CASE IsStr(x) -> x.str
    [] IsNum(x) -> ToString(x.num)
    [] IsNone(x) -> "None"

(* --------------------------- str methods ------------------------------ *)
\* s.startswith(p)
StartsWith(s, p) == Len(s) >= Len(p) /\ SubSeq(s, 1, Len(p)) = p

\* p in s
Contains(s, p) ==
  \E i \in 1..Len(s) : i + Len(p) - 1 <= Len(s) /\ SubSeq(s, i, i + Len(p) - 1) = p

\* s.count(c), c one character
Count(s, c) == Cardinality({i \in 1..Len(s) : SubSeq(s, i, i) = c})

\* s.replace(old, new), old one character
RECURSIVE Replace(_, _, _)
Replace(s, old, new) ==
  IF Len(s) = 0 THEN ""
  ELSE (IF SubSeq(s, 1, 1) = old THEN new ELSE SubSeq(s, 1, 1))
         \o Replace(SubSeq(s, 2, Len(s)), old, new)

(* ------------------------- exception classes -------------------------- *)
UserAgentErrors ==
  {"UserAgentError", "InvalidJSONFormatError", "FileNotFoundError",
   "EmptyDataError", "InvalidUserAgentError"}

\* isinstance(e, UserAgentError)
IsUserAgentError(e) == e \in UserAgentErrors

Return(x) == [exc |-> "none", val |-> x]
Raise(e) == [exc |-> e, val |-> None]

\* except Exception as e: a UserAgentError is re-raised, anything else is
\* replaced by a bare UserAgentError
ReraiseAlwaysWraps(r) ==
  IF r.exc = "none" THEN r ELSE [r EXCEPT !.exc = "UserAgentError"]

Reraise(r) ==
  IF r.exc = "none" \/ IsUserAgentError(r.exc) THEN r
  ELSE [r EXCEPT !.exc = "UserAgentError"]

(* --------------------------- get_os_string ---------------------------- *)
\* get_os_string with the "." -> "_" normalisation of Mac OS versions left out
get_os_string_noreplace(os_name, os_version) ==
  IF ~IsStr(os_name) \/ ~IsStr(os_version) THEN Raise("UserAgentError")
  ELSE IF os_name.str = "Windows"
    THEN Return("Windows NT " \o os_version.str \o "; Win64; x64")
  ELSE IF os_name.str = "Mac OS"
    THEN Return("Macintosh; Intel Mac OS X " \o os_version.str)
  ELSE IF os_name.str = "Linux"
    THEN Return("X11; Linux " \o os_version.str)
  ELSE Return(os_name.str \o " " \o os_version.str)

\* The TypeError of the isinstance check is caught by the function's own
\* except clause and leaves as a bare UserAgentError.
get_os_string(os_name, os_version) ==
  IF ~IsStr(os_name) \/ ~IsStr(os_version) THEN Raise("UserAgentError")
  ELSE IF os_name.str = "Windows"
    THEN Return("Windows NT " \o os_version.str \o "; Win64; x64")
  ELSE IF os_name.str = "Mac OS"
    THEN IF Contains(os_version.str, "_")
      THEN Return("Macintosh; Intel Mac OS X " \o os_version.str)
      ELSE Return("Macintosh; Intel Mac OS X " \o Replace(os_version.str, ".", "_"))
  ELSE IF os_name.str = "Linux"
    THEN Return("X11; Linux " \o os_version.str)
  ELSE Return(os_name.str \o " " \o os_version.str)

(* ------------------------- validate_user_agent ------------------------ *)
MinLength == 30
browser_patterns == {"Chrome", "Firefox", "Safari", "Edg"}
os_patterns == {"Windows", "Mac OS X", "Linux", "X11"}

validate_user_agent(user_agent) ==
  IF ~StartsWith(user_agent, "Mozilla/5.0") THEN FALSE
  ELSE IF Count(user_agent, "(") # Count(user_agent, ")") THEN FALSE
  ELSE IF Len(user_agent) < MinLength THEN FALSE
  ELSE IF ~(\E p \in browser_patterns : Contains(user_agent, p)) THEN FALSE
  ELSE IF ~(\E p \in os_patterns : Contains(user_agent, p)) THEN FALSE
  ELSE TRUE

(* ----------------------- validate_json_structure ---------------------- *)
\* the checks on one element of a browser's "os" list; TRUE when none raises
ValidOsInfoNoVersionsCheck(os_info) ==
  IsDict(os_info) /\ Has(os_info, "name")

ValidOsInfo(os_info) ==
  IF ~IsDict(os_info) THEN FALSE
  ELSE IF ~Has(os_info, "name") THEN FALSE
  ELSE IF ~Has(os_info, "versions") \/ ~IsList(Get(os_info, "versions"))
          \/ Len(Get(os_info, "versions").list) = 0 THEN FALSE
  ELSE TRUE

\* the checks on one element of "browsers" with the "os" length test left out
ValidBrowserNoOsLength(browser) ==
  IF ~IsDict(browser) THEN FALSE
  ELSE IF \E field \in {"name", "versions", "os"} : ~Has(browser, field) THEN FALSE
  ELSE IF ~IsList(Get(browser, "versions")) \/ Len(Get(browser, "versions").list) = 0
    THEN FALSE
  ELSE IF ~IsList(Get(browser, "os")) THEN FALSE
  ELSE \A j \in 1..Len(Get(browser, "os").list) : ValidOsInfo(Get(browser, "os").list[j])

\* the checks on one element of "browsers"; TRUE when none raises
ValidBrowser(browser) ==
  IF ~IsDict(browser) THEN FALSE
  ELSE IF \E field \in {"name", "versions", "os"} : ~Has(browser, field) THEN FALSE
  ELSE IF ~IsList(Get(browser, "versions")) \/ Len(Get(browser, "versions").list) = 0
    THEN FALSE
  ELSE IF ~IsList(Get(browser, "os")) \/ Len(Get(browser, "os").list) = 0 THEN FALSE
  ELSE \A j \in 1..Len(Get(browser, "os").list) : ValidOsInfo(Get(browser, "os").list[j])

\* Every violation raises the same class, so the first one found decides
\* nothing but the message; the result is the exception raised, or "none".
validate_json_structure(data) ==
  IF ~IsDict(data) THEN "InvalidJSONFormatError"
  ELSE IF ~Has(data, "browsers") THEN "InvalidJSONFormatError"
  ELSE IF ~IsList(Get(data, "browsers")) \/ Len(Get(data, "browsers").list) = 0
    THEN "InvalidJSONFormatError"
  ELSE IF \E i \in 1..Len(Get(data, "browsers").list) :
            ~ValidBrowser(Get(data, "browsers").list[i])
    THEN "InvalidJSONFormatError"
  ELSE "none"

(* --------------------------- load_user_agents ------------------------- *)
\* A file is [exists, readable, read, doc]: os.path.exists, os.access(R_OK),
\* the exception open() or json.load raises ("none" when json.load returns)
\* and the value json.load returns.
load_user_agents_access_first(json_file) ==
  Reraise(
    IF ~json_file.readable THEN Raise("PermissionError")
    ELSE IF ~json_file.exists THEN Raise("FileNotFoundError")
    ELSE IF json_file.read = "JSONDecodeError" THEN Raise("InvalidJSONFormatError")
    ELSE IF json_file.read # "none" THEN Raise(json_file.read)
    ELSE IF validate_json_structure(json_file.doc) # "none"
      THEN Raise(validate_json_structure(json_file.doc))
    ELSE Return(json_file.doc))

\* PermissionError is the builtin (the module defines no class of that
\* name), FileNotFoundError the module's own subclass of UserAgentError.
\* Only json.JSONDecodeError is turned into InvalidJSONFormatError; any other
\* exception of open() or json.load (IsADirectoryError, UnicodeDecodeError,
\* RecursionError) reaches the outer except clause as it is.
load_user_agents(json_file) ==
  Reraise(
    IF ~json_file.exists THEN Raise("FileNotFoundError")
    ELSE IF ~json_file.readable THEN Raise("PermissionError")
    ELSE IF json_file.read = "JSONDecodeError" THEN Raise("InvalidJSONFormatError")
    ELSE IF json_file.read # "none" THEN Raise(json_file.read)
    ELSE IF validate_json_structure(json_file.doc) # "none"
      THEN Raise(validate_json_structure(json_file.doc))
    ELSE Return(json_file.doc))

(* -------------------------- generate_user_agent ----------------------- *)
\* random.choice(seq) with r the value of the underlying random draw
Choice(seq, r) == seq[(r % Len(seq)) + 1]

\* what "for e in x: e.get(...)" raises when x is truthy and not a list:
\* the elements of a str or the keys of a dict have no .get, a number
\* cannot be iterated
IterateGetError(x) == IF IsNum(x) THEN "TypeError" ELSE "AttributeError"

\* browser.get('os') and isinstance(browser.get('versions'), list) and browser['versions']
IsFeasibleBrowserNoOsTest(browser) ==
  /\ Has(browser, "versions")
  /\ IsList(Get(browser, "versions"))
  /\ Truthy(Get(browser, "versions"))

IsFeasibleBrowser(browser) ==
  /\ Has(browser, "os") /\ Truthy(Get(browser, "os"))
  /\ Has(browser, "versions") /\ IsList(Get(browser, "versions"))
  /\ Truthy(Get(browser, "versions"))

\* os_info.get('versions') and isinstance(os_info['versions'], list) and os_info['versions']
IsFeasibleOs(os_info) ==
  /\ Has(os_info, "versions") /\ Truthy(Get(os_info, "versions"))
  /\ IsList(Get(os_info, "versions"))

\* the template chosen by the browser name, with the Chrome template
\* missing its trailing Safari token
format_user_agent_short_chrome(browser_name, browser_version, os_string) ==
  IF IsStr(browser_name) /\ browser_name.str \in {"Chrome", "Edge"}
    THEN "Mozilla/5.0 (" \o os_string
           \o ") AppleWebKit/537.36 (KHTML, like Gecko) "
           \o (IF browser_name.str = "Chrome" THEN "Chrome/" ELSE "Edg/")
           \o PyStr(browser_version)
  ELSE IF IsStr(browser_name) /\ browser_name.str = "Firefox"
    THEN "Mozilla/5.0 (" \o os_string \o "; rv:" \o PyStr(browser_version)
           \o ") Gecko/20100101 Firefox/" \o PyStr(browser_version)
  ELSE IF IsStr(browser_name) /\ browser_name.str = "Safari"
    THEN "Mozilla/5.0 (" \o os_string
           \o ") AppleWebKit/605.1.15 (KHTML, like Gecko) Version/"
           \o PyStr(browser_version) \o " Safari/605.1.15"
  ELSE "Mozilla/5.0 (" \o os_string
           \o ") AppleWebKit/537.36 (KHTML, like Gecko) "
           \o PyStr(browser_name) \o "/" \o PyStr(browser_version)

\* the template chosen by the browser name
format_user_agent(browser_name, browser_version, os_string) ==
  IF IsStr(browser_name) /\ browser_name.str = "Chrome"
    THEN "Mozilla/5.0 (" \o os_string
           \o ") AppleWebKit/537.36 (KHTML, like Gecko) Chrome/"
           \o PyStr(browser_version) \o " Safari/537.36"
  ELSE IF IsStr(browser_name) /\ browser_name.str = "Firefox"
    THEN "Mozilla/5.0 (" \o os_string \o "; rv:" \o PyStr(browser_version)
           \o ") Gecko/20100101 Firefox/" \o PyStr(browser_version)
  ELSE IF IsStr(browser_name) /\ browser_name.str = "Safari"
    THEN "Mozilla/5.0 (" \o os_string
           \o ") AppleWebKit/605.1.15 (KHTML, like Gecko) Version/"
           \o PyStr(browser_version) \o " Safari/605.1.15"
  ELSE IF IsStr(browser_name) /\ browser_name.str = "Edge"
    THEN "Mozilla/5.0 (" \o os_string
           \o ") AppleWebKit/537.36 (KHTML, like Gecko) Edg/"
           \o PyStr(browser_version)
  ELSE "Mozilla/5.0 (" \o os_string
           \o ") AppleWebKit/537.36 (KHTML, like Gecko) "
           \o PyStr(browser_name) \o "/" \o PyStr(browser_version)

\* The result also carries the browser, the OS entry and the two versions
\* selected so far (None for one not selected yet).
GenRaise(e, browser, browser_version, os_info, os_version) ==
  [exc |-> e, val |-> "", browser |-> browser, browser_version |-> browser_version,
   os_info |-> os_info, os_version |-> os_version]

\* from the OS filter to the end of the try block
generate_from_browser(browser, browser_version, ro, rov) ==
  LET os == Get(browser, "os")
  IN IF ~Has(browser, "os")
       THEN GenRaise("KeyError", browser, browser_version, None, None)
     ELSE IF ~IsList(os)
       THEN GenRaise(IterateGetError(os), browser, browser_version, None, None)
     ELSE IF \E j \in 1..Len(os.list) : ~IsDict(os.list[j])
       THEN GenRaise("AttributeError", browser, browser_version, None, None)
     ELSE LET feasible_os == SelectSeq(os.list, IsFeasibleOs)
          IN IF Len(feasible_os) = 0
               THEN GenRaise("EmptyDataError", browser, browser_version, None, None)
             ELSE LET os_info == Choice(feasible_os, ro)
                  IN IF ~Has(os_info, "name")
                       THEN GenRaise("KeyError", browser, browser_version, os_info, None)
                     ELSE LET os_name == Get(os_info, "name")
                              os_version == Choice(Get(os_info, "versions").list, rov)
                              os_string == get_os_string(os_name, os_version)
                              user_agent == format_user_agent(Get(browser, "name"),
                                              browser_version, os_string.val)
                          IN IF os_string.exc # "none"
                               THEN GenRaise(os_string.exc, browser, browser_version,
                                             os_info, os_version)
                             ELSE IF ~validate_user_agent(user_agent)
                               THEN GenRaise("InvalidUserAgentError", browser,
                                             browser_version, os_info, os_version)
                             ELSE [GenRaise("none", browser, browser_version,
                                            os_info, os_version)
                                     EXCEPT !.val = user_agent]

\* rb, rv, ro, rov are the four random draws, in the order the code makes them
generate_user_agent(data, rb, rv, ro, rov) ==
  Reraise(
    IF ~Truthy(data) \/ ~IsDict(data) \/ ~Has(data, "browsers")
      THEN GenRaise("EmptyDataError", None, None, None, None)
    ELSE IF ~Truthy(Get(data, "browsers"))
      THEN GenRaise("EmptyDataError", None, None, None, None)
    ELSE IF ~IsList(Get(data, "browsers"))
      THEN GenRaise(IterateGetError(Get(data, "browsers")), None, None, None, None)
    ELSE IF \E i \in 1..Len(Get(data, "browsers").list) :
              ~IsDict(Get(data, "browsers").list[i])
      THEN GenRaise("AttributeError", None, None, None, None)
    ELSE LET feasible_browsers == SelectSeq(Get(data, "browsers").list, IsFeasibleBrowser)
         IN IF Len(feasible_browsers) = 0
              THEN GenRaise("EmptyDataError", None, None, None, None)
            ELSE LET browser == Choice(feasible_browsers, rb)
                 IN IF ~Has(browser, "name")
                      THEN GenRaise("KeyError", browser, None, None, None)
                    ELSE generate_from_browser(browser,
                           Choice(Get(browser, "versions").list, rv), ro, rov))

(* ------------------------------ inputs -------------------------------- *)
\* the runs of 1..n consecutive indices of 1..m
Runs(n, m) ==
  {r \in {[i \in 1..k |-> start + i - 1] : k \in 1..n, start \in 1..m}
     : r[Len(r)] <= m}

\* the sequences of up to n elements, all of them good but at most one (the
\* one at position p, if there is such a position), which is any member of S
OneOdd(n, good, S) ==
  {<<>>} \cup {[i \in 1..k |-> IF i = p THEN x ELSE good]
                 : k \in 1..n, p \in 1..n, x \in S}

SeqsUpTo(S, n) == UNION {[1..k -> S] : k \in 0..n}

StrList(ss) == List([i \in 1..Len(ss) |-> Str(ss[i])])
OsEntry(name, versions) == Dict([name |-> Str(name), versions |-> StrList(versions)])
Browser(name, versions, os) ==
  Dict([name |-> Str(name), versions |-> StrList(versions), os |-> List(os)])
Catalog(browsers) == Dict([browsers |-> List(browsers)])

\* Catalogs of the documented schema: a run of browsers, each with its
\* version list and a run of one to MaxOs operating systems.
BrowserNames == <<"Chrome", "Firefox", "Safari", "Edge", "Opera">>
BrowserVersions ==
  <<(<<"116.0">>), (<<"117.0", "118.0">>), (<<"16.5">>), (<<"116.0.1938.69">>),
    (<<"102.0">>)>>
OsMaster ==
  <<OsEntry("Windows", <<"10.0">>), OsEntry("Mac OS", <<"10_15_7", "10.15">>),
    OsEntry("Linux", <<"x86_64">>), OsEntry("FreeBSD", <<"13.2">>)>>

SchemaOsLists ==
  {[i \in DOMAIN f |-> OsMaster[f[i]]] : f \in Runs(MaxOs, Len(OsMaster))}

SchemaCatalogs ==
  UNION {{Catalog([i \in DOMAIN f |->
                     Browser(BrowserNames[f[i]], BrowserVersions[f[i]], g[i])])
            : g \in [DOMAIN f -> SchemaOsLists]}
           : f \in Runs(MaxBrowsers, Len(BrowserNames))}

\* Documents of every shape the validator tells apart: one defect, at any
\* depth and position, in an otherwise well-formed catalog.
GoodOs == OsEntry("Windows", <<"10.0">>)
ShapeOs ==
  {GoodOs,
   Str("Windows"),
   Dict([versions |-> StrList(<<"10.0">>)]),
   Dict([name |-> Str("Windows")]),
   Dict([name |-> Str("Windows"), versions |-> Str("10.0")]),
   OsEntry("Windows", <<>>)}

GoodBrowser == Browser("Chrome", <<"116.0">>, <<GoodOs>>)
ShapeBrowsers ==
  {Str("Chrome"),
   Dict([versions |-> StrList(<<"116.0">>), os |-> List(<<GoodOs>>)]),
   Dict([name |-> Str("Chrome"), os |-> List(<<GoodOs>>)]),
   Dict([name |-> Str("Chrome"), versions |-> StrList(<<"116.0">>)]),
   Dict([name |-> Str("Chrome"), versions |-> Str("116.0"), os |-> List(<<GoodOs>>)]),
   Browser("Chrome", <<>>, <<GoodOs>>),
   Dict([name |-> Str("Chrome"), versions |-> StrList(<<"116.0">>),
         os |-> Str("Windows")])}
  \cup {Browser("Chrome", <<"116.0">>, os) : os \in OneOdd(MaxOs, GoodOs, ShapeOs)}

\* Browsers the generator's two filters tell apart, in every combination.
FilterBrowsers ==
  {GoodBrowser,
   Str("Chrome"),
   Dict([versions |-> StrList(<<"116.0">>), os |-> List(<<GoodOs>>)]),
   Browser("Chrome", <<>>, <<GoodOs>>),
   Browser("Chrome", <<"116.0">>, <<>>),
   Browser("Chrome", <<"116.0">>, <<OsEntry("Windows", <<>>)>>),
   Browser("Firefox", <<"117.0", "118.0">>, <<OsEntry("Linux", <<>>), OsMaster[2]>>)}

ShapeDocs ==
  {None, Num(7), Str("browsers"), List(<<>>),
   Dict([agents |-> List(<<>>)]),
   Dict([browsers |-> None]),
   Dict([browsers |-> Str("Chrome")]),
   Dict([browsers |-> Catalog(<<>>)])}
  \cup {Catalog(bs) : bs \in OneOdd(MaxBrowsers, GoodBrowser, ShapeBrowsers)}
  \cup {Catalog(bs) : bs \in SeqsUpTo(FilterBrowsers, MaxBrowsers)}

Docs == SchemaCatalogs \cup ShapeDocs

\* what reading a file that cannot be parsed raises
ReadErrors ==
  {"JSONDecodeError", "UnicodeDecodeError", "RecursionError", "IsADirectoryError"}

NoFile == [exists |-> FALSE, readable |-> FALSE, read |-> "JSONDecodeError", doc |-> None]
Files ==
  {NoFile}
  \cup {[exists |-> TRUE, readable |-> FALSE, read |-> rd, doc |-> None]
          : rd \in {"none", "JSONDecodeError"}}
  \cup {[exists |-> TRUE, readable |-> TRUE, read |-> rd, doc |-> None]
          : rd \in ReadErrors}
  \cup {[exists |-> TRUE, readable |-> TRUE, read |-> "none", doc |-> d] : d \in Docs}

\* A standard stream as a write finds it: open and accepting the write;
\* full and unbuffered (python -u: the write inside print raises OSError);
\* full and buffered (print fills the buffer, the write raises at the flush:
\* at exit for stdout, at the end of the line for stderr, where the data
\* stays in the buffer until exit); closed (sys.stdout or sys.stderr is None).
\* A stream is observed when it is first written to.
OutDevs == {"ok", "full_unbuffered", "full_buffered", "closed"}
ErrDevs == {"ok", "full_unbuffered", "full_buffered", "closed"}

\* buffering is one setting of the process, shared by the two streams
Compatible(out, err) == {out, err} # {"full_unbuffered", "full_buffered"}

\* dev is what a write to a stream already observed as seen finds
Observes(seen, dev) == seen = "unobserved" \/ seen = dev

\* the random draws: one value for each index of the longest list drawn
\* from (no input has more than two versions in a list)
BrowserDraws == 0..(MaxBrowsers - 1)
OsDraws == 0..(MaxOs - 1)
VersionDraws == 0..1

(* --------------------------- state machine ---------------------------- *)
VARIABLES pc, json_file, data, load_ret, gen_ret, out_dev, err_dev, print_exc,
          returned, main_exc, stdout, stderr, exit_status, steps,
          os_name, os_version, os_ret

vars == <<pc, json_file, data, load_ret, gen_ret, out_dev, err_dev, print_exc,
          returned, main_exc, stdout, stderr, exit_status, steps,
          os_name, os_version, os_ret>>

NoRet == [exc |-> "none", val |-> None]
NoGen == GenRaise("none", None, None, None, None)

\* nothing has run yet
Idle ==
  /\ load_ret = NoRet /\ gen_ret = NoGen /\ os_ret = NoRet
  /\ out_dev = "unobserved" /\ err_dev = "unobserved"
  /\ print_exc = "none" /\ returned = -1 /\ main_exc = "none"
  /\ stdout = <<>> /\ stderr = <<>> /\ exit_status = -1 /\ steps = <<>>

\* one run of main() on a file
Init ==
  /\ pc = "main" /\ json_file \in Files /\ data = None
  /\ os_name = None /\ os_version = None /\ Idle

\* data = load_user_agents(json_file)
MainLoad ==
  /\ pc = "main"
  /\ load_ret' = load_user_agents(json_file)
  /\ steps' = Append(steps, "load")
  /\ IF load_ret'.exc = "none"
       THEN data' = load_ret'.val /\ pc' = "loaded"
       ELSE data' = data /\ pc' = "except"
  /\ UNCHANGED <<json_file, gen_ret, out_dev, err_dev, print_exc, returned,
                 main_exc, stdout, stderr, exit_status, os_name, os_version, os_ret>>

\* user_agent = generate_user_agent(data)
MainGenerate ==
  /\ pc = "loaded"
  /\ \E rb \in BrowserDraws, rv \in VersionDraws, ro \in OsDraws, rov \in VersionDraws :
       gen_ret' = generate_user_agent(data, rb, rv, ro, rov)
  /\ steps' = Append(steps, "generate")
  /\ pc' = IF gen_ret'.exc = "none" THEN "generated" ELSE "except"
  /\ UNCHANGED <<json_file, data, load_ret, out_dev, err_dev, print_exc, returned,
                 main_exc, stdout, stderr, exit_status, os_name, os_version, os_ret>>

\* print(user_agent); return 0.  print is inside the try block: when the
\* write raises, the except clauses run.
MainPrint ==
  /\ pc = "generated"
  /\ \E dev \in OutDevs :
       /\ Observes(out_dev, dev) /\ Compatible(dev, err_dev)
       /\ out_dev' = dev
       /\ stdout' = IF dev = "ok" THEN Append(stdout, gen_ret.val) ELSE stdout
       /\ IF dev = "full_unbuffered"
            THEN print_exc' = "OSError" /\ returned' = returned /\ pc' = "except"
            ELSE print_exc' = "none" /\ returned' = 0 /\ pc' = "main_done"
  /\ steps' = Append(steps, "print")
  /\ UNCHANGED <<json_file, data, load_ret, gen_ret, err_dev, main_exc, stderr,
                 exit_status, os_name, os_version, os_ret>>

\* the exception main() is handling
Raised ==
  IF load_ret.exc # "none" THEN load_ret.exc
  ELSE IF gen_ret.exc # "none" THEN gen_ret.exc
  ELSE print_exc

\* the line the except clause prints (a message is modelled as its prefix
\* and the class of the exception)
Message ==
  (IF IsUserAgentError(Raised) THEN "Error: " ELSE "Unexpected error: ") \o Raised

\* the except clauses of main() with file=sys.stderr left out of the print
MainExceptToStdout ==
  /\ pc = "except"
  /\ \E edev \in ErrDevs :
       /\ Observes(err_dev, edev) /\ Compatible(out_dev, edev)
       /\ err_dev' = edev
  /\ stdout' = Append(stdout, Message)
  /\ returned' = 1
  /\ pc' = "main_done"
  /\ UNCHANGED <<json_file, data, load_ret, gen_ret, out_dev, print_exc, main_exc,
                 stderr, exit_status, steps, os_name, os_version, os_ret>>

\* except UserAgentError / except Exception:
\*   print(message, file=sys.stderr); return 1
\* With sys.stderr None print writes to sys.stdout.  A write that raises
\* does so inside the except clause, where nothing catches it: main raises.
MainExcept ==
  /\ pc = "except"
  /\ \E edev \in ErrDevs, odev \in OutDevs :
       /\ Observes(err_dev, edev) /\ Compatible(out_dev, edev)
       /\ err_dev' = edev
       /\ IF edev = "closed"
            THEN Observes(out_dev, odev) /\ Compatible(odev, edev) /\ out_dev' = odev
            ELSE odev = "ok" /\ out_dev' = out_dev
       /\ stderr' = IF edev = "ok" THEN Append(stderr, Message) ELSE stderr
       /\ stdout' = IF edev = "closed" /\ odev = "ok"
                      THEN Append(stdout, Message) ELSE stdout
       /\ IF \/ edev \in {"full_unbuffered", "full_buffered"}
             \/ edev = "closed" /\ odev = "full_unbuffered"
            THEN main_exc' = "OSError" /\ returned' = returned
            ELSE main_exc' = main_exc /\ returned' = 1
  /\ pc' = "main_done"
  /\ UNCHANGED <<json_file, data, load_ret, gen_ret, print_exc, exit_status, steps,
                 os_name, os_version, os_ret>>

\* a buffered stream holds data it cannot write: the flush at exit fails
FlushFails == out_dev = "full_buffered" \/ err_dev = "full_buffered"

\* sys.exit(main()): the status is the value main returned, or 1 when main
\* raised (no run that raises has a stderr able to show the traceback); the
\* interpreter then flushes the streams, and when a flush fails it exits
\* with status 120, reporting a failed flush of stdout on stderr if stderr
\* is open and accepts the write.
SysExit ==
  /\ pc = "main_done"
  /\ exit_status' = IF FlushFails THEN 120
                    ELSE IF main_exc # "none" THEN 1 ELSE returned
  /\ IF out_dev = "full_buffered"
       THEN \E edev \in ErrDevs :
              /\ Observes(err_dev, edev) /\ Compatible(out_dev, edev)
              /\ err_dev' = edev
              /\ stderr' = IF edev = "ok"
                             THEN Append(stderr, "Exception ignored: OSError")
                             ELSE stderr
       ELSE err_dev' = err_dev /\ stderr' = stderr
  /\ pc' = "exit"
  /\ UNCHANGED <<json_file, data, load_ret, gen_ret, out_dev, print_exc, returned,
                 main_exc, stdout, steps, os_name, os_version, os_ret>>

Next == MainLoad \/ MainGenerate \/ MainPrint \/ MainExcept \/ SysExit

Spec == Init /\ [][Next]_vars

(* ---------------- generate_user_agent called on its own --------------- *)
NameValues == {Str(BrowserNames[i]) : i \in 1..Len(BrowserNames)} \cup {Num(7)}
VersionsValues ==
  {StrList(<<>>), StrList(<<"116.0">>), StrList(<<"116.0", "117.0">>),
   Str("116.0"), None}

\* catalogs whose only browser has an empty "os" list
EmptyOsCatalogs ==
  {Catalog(<<Dict([name |-> n, versions |-> vv, os |-> List(<<>>)])>>)
     : n \in NameValues, vv \in VersionsValues}
  \cup {Catalog(<<Dict([os |-> List(<<>>)])>>),
        Catalog(<<Dict([name |-> Str("Chrome"), os |-> List(<<>>)])>>),
        Catalog(<<Dict([versions |-> StrList(<<"116.0">>), os |-> List(<<>>)])>>)}

\* names and versions that are not strings
UntypedCatalogs ==
  {Catalog(<<Dict([name |-> n, versions |-> List(<<bv>>),
                   os |-> List(<<Dict([name |-> on, versions |-> List(<<ov>>)])>>)])>>)
     : n \in {Str("Chrome"), Num(7)}, bv \in {Str("116.0"), Num(116)},
       on \in {Str("Windows"), Num(7)}, ov \in {Str("10.0"), Num(10)}}

GenInputs ==
  ShapeDocs \cup SchemaCatalogs \cup EmptyOsCatalogs \cup UntypedCatalogs
  \cup {Dict(<<>>)}

InitGenerate ==
  /\ pc = "call_generate" /\ data \in GenInputs /\ json_file = NoFile
  /\ os_name = None /\ os_version = None /\ Idle

CallGenerate ==
  /\ pc = "call_generate"
  /\ \E rb \in BrowserDraws, rv \in VersionDraws, ro \in OsDraws, rov \in VersionDraws :
       gen_ret' = generate_user_agent(data, rb, rv, ro, rov)
  /\ steps' = Append(steps, "generate")
  /\ pc' = "generate_returned"
  /\ UNCHANGED <<json_file, data, load_ret, out_dev, err_dev, print_exc, returned,
                 main_exc, stdout, stderr, exit_status, os_name, os_version, os_ret>>

NextGenerate == CallGenerate

SpecGenerate == InitGenerate /\ [][NextGenerate]_vars

(* ------------------- get_os_string called on its own ------------------ *)
VersionChars == {"1", "0", ".", "_"}

RECURSIVE StringsUpTo(_)
StringsUpTo(n) ==
  IF n = 0 THEN {""}
  ELSE StringsUpTo(n - 1)
         \cup {s \o c : s \in StringsUpTo(n - 1), c \in VersionChars}

OsNameInputs ==
  {Str("Windows"), Str("Mac OS"), Str("Linux"), Str("FreeBSD"), Str(""), Num(7), None}
OsVersionInputs ==
  {Str(s) : s \in {"10_15_7", "10.15", "10.15.7", "10.0", "x86_64"}
                    \cup StringsUpTo(MaxVerLen)}
  \cup {Num(10), None}

InitOsString ==
  /\ pc = "call_get_os_string"
  /\ os_name \in OsNameInputs /\ os_version \in OsVersionInputs
  /\ json_file = NoFile /\ data = None /\ Idle

CallGetOsString ==
  /\ pc = "call_get_os_string"
  /\ os_ret' = get_os_string(os_name, os_version)
  /\ steps' = Append(steps, "get_os_string")
  /\ pc' = "get_os_string_returned"
  /\ UNCHANGED <<json_file, data, load_ret, gen_ret, out_dev, err_dev, print_exc,
                 returned, main_exc, stdout, stderr, exit_status, os_name, os_version>>

NextOsString == CallGetOsString

SpecOsString == InitOsString /\ [][NextOsString]_vars

(* ============================== claims ================================ *)
LoadDone == Len(steps) >= 1 /\ steps[1] = "load"
GenerateDone == \E i \in 1..Len(steps) : steps[i] = "generate"

\* a list with at least one element
NonEmptyList(x) == IsList(x) /\ Len(x.list) >= 1
\* a mapping with a key bound to a non-empty list
HasNonEmptyList(x, k) == IsDict(x) /\ Has(x, k) /\ NonEmptyList(Get(x, k))

\* the schema of the specification's section 4.1, stated declaratively
WellFormedOs(o) == IsDict(o) /\ Has(o, "name") /\ HasNonEmptyList(o, "versions")
WellFormedBrowser(b) ==
  /\ IsDict(b) /\ Has(b, "name")
  /\ HasNonEmptyList(b, "versions")
  /\ HasNonEmptyList(b, "os")
  /\ \A j \in 1..Len(Get(b, "os").list) : WellFormedOs(Get(b, "os").list[j])
WellFormed(doc) ==
  /\ HasNonEmptyList(doc, "browsers")
  /\ \A i \in 1..Len(Get(doc, "browsers").list) :
       WellFormedBrowser(Get(doc, "browsers").list[i])

\* C1: on every catalog the validator accepts, generation returns a string
\* that starts with "Mozilla/5.0" and passes validate_user_agent, whatever
\* the four random draws (the claim as stated; the code breaks it).
C1_GenerateAlwaysValid ==
  (LoadDone /\ load_ret.exc = "none" /\ GenerateDone)
    => /\ gen_ret.exc = "none"
       /\ StartsWith(gen_ret.val, "Mozilla/5.0")
       /\ validate_user_agent(gen_ret.val)

MacDescriptor == "Macintosh; Intel Mac OS X 10_15_7"

\* C2 as stated: Mac OS versions "10_15_7" and "10.15" both format to
\* "Macintosh; Intel Mac OS X 10_15_7".
C2_Original ==
  (pc = "get_os_string_returned" /\ os_name = Str("Mac OS")
     /\ os_version \in {Str("10_15_7"), Str("10.15")})
    => os_ret = Return(MacDescriptor)

\* C2 amended: Mac OS version "10_15_7" formats to
\* "Macintosh; Intel Mac OS X 10_15_7" and "10.15" to
\* "Macintosh; Intel Mac OS X 10_15" (each "." becomes "_", nothing is added).
C2_MacVersions ==
  (pc = "get_os_string_returned" /\ os_name = Str("Mac OS"))
    => /\ os_version = Str("10_15_7") => os_ret = Return(MacDescriptor)
       /\ os_version = Str("10.15")
            => os_ret = Return("Macintosh; Intel Mac OS X 10_15")

C2_Witness ==
  /\ pc = "get_os_string_returned" /\ os_name = Str("Mac OS") /\ os_version = Str("10.15")
  /\ os_ret = Return("Macintosh; Intel Mac OS X 10_15")

\* the selection the run of generate_user_agent made
Selected(bn, bv, on, ov) ==
  /\ GenerateDone
  /\ IsDict(gen_ret.browser) /\ Get(gen_ret.browser, "name") = Str(bn)
  /\ gen_ret.browser_version = Str(bv)
  /\ IsDict(gen_ret.os_info) /\ Get(gen_ret.os_info, "name") = Str(on)
  /\ gen_ret.os_version = Str(ov)

ChromeOnWindows ==
  "Mozilla/5.0 (Windows NT 10.0; Win64; x64) AppleWebKit/537.36 (KHTML, like Gecko) Chrome/116.0 Safari/537.36"

\* C3: when Chrome, 116.0, Windows and 10.0 are selected, generation returns
\* exactly the Chrome-on-Windows string.
C3_ChromeWindowsExact ==
  Selected("Chrome", "116.0", "Windows", "10.0")
    => gen_ret.exc = "none" /\ gen_ret.val = ChromeOnWindows

\* the catalog holding only that combination was loaded and generated from
C3_Witness ==
  /\ data = Catalog(<<Browser("Chrome", <<"116.0">>, <<OsEntry("Windows", <<"10.0">>)>>)>>)
  /\ Selected("Chrome", "116.0", "Windows", "10.0")
  /\ pc = "exit" /\ stdout = <<ChromeOnWindows>>

\* C4: a parsed document is accepted (and returned unchanged) exactly when
\* it is well-formed; every other document fails with InvalidJSONFormatError.
C4_AcceptsIffWellFormed ==
  (LoadDone /\ json_file.exists /\ json_file.readable /\ json_file.read = "none")
    => IF WellFormed(json_file.doc)
         THEN load_ret = Return(json_file.doc)
         ELSE load_ret.exc = "InvalidJSONFormatError"

\* a document rejected for an OS entry of its last browser, the rest being fine
C4_Witness ==
  /\ LoadDone /\ json_file.read = "none"
  /\ load_ret.exc = "InvalidJSONFormatError"
  /\ HasNonEmptyList(json_file.doc, "browsers")
  /\ LET bs == Get(json_file.doc, "browsers").list
     IN /\ Len(bs) >= 2
        /\ \A i \in 1..(Len(bs) - 1) : WellFormedBrowser(bs[i])
        /\ HasNonEmptyList(bs[Len(bs)], "os")
        /\ HasNonEmptyList(bs[Len(bs)], "versions")

\* the catalog's only browser has an empty OS list
OnlyBrowserWithoutOs(d) ==
  /\ IsDict(d) /\ Has(d, "browsers") /\ IsList(Get(d, "browsers"))
  /\ Len(Get(d, "browsers").list) = 1
  /\ LET b == Get(d, "browsers").list[1]
     IN IsDict(b) /\ Has(b, "os") /\ Get(b, "os") = List(<<>>)

\* C5: generation on a catalog whose only browser has an empty OS list fails
\* with EmptyDataError, whatever the browser's name and versions.
C5_EmptyOsListFails ==
  (pc = "generate_returned" /\ GenerateDone /\ OnlyBrowserWithoutOs(data))
    => gen_ret.exc = "EmptyDataError" /\ gen_ret.val = ""

\* such a catalog whose browser would otherwise be usable
C5_Witness ==
  /\ pc = "generate_returned" /\ GenerateDone /\ OnlyBrowserWithoutOs(data)
  /\ HasNonEmptyList(Get(data, "browsers").list[1], "versions")
  /\ Has(Get(data, "browsers").list[1], "name")
  /\ gen_ret.exc = "EmptyDataError"

IsPrefix(s, t) == Len(s) <= Len(t) /\ s = SubSeq(t, 1, Len(s))

NoFailure == load_ret.exc = "none" /\ gen_ret.exc = "none" /\ print_exc = "none"

\* C6 as stated: main runs load, generate, print in that order and ends
\* either with exit status 0, the generated string alone on stdout and
\* nothing on stderr (only if load and generate both succeeded), or with
\* exit status 1, one message on stderr and nothing on stdout (on any
\* failure of load or generate); generation is never attempted after a
\* failed load.
C6_Original ==
  /\ IsPrefix(steps, <<"load", "generate", "print">>)
  /\ (LoadDone /\ load_ret.exc # "none") => ~GenerateDone /\ gen_ret = NoGen
  /\ pc = "exit" =>
       /\ \/ /\ exit_status = 0
             /\ load_ret.exc = "none" /\ gen_ret.exc = "none"
             /\ stdout = <<gen_ret.val>> /\ stderr = <<>>
          \/ /\ exit_status = 1
             /\ Len(stderr) = 1 /\ stdout = <<>>
       /\ (load_ret.exc # "none" \/ gen_ret.exc # "none") => exit_status = 1

\* both streams took every write made to them
StreamsOk == out_dev \in {"unobserved", "ok"} /\ err_dev \in {"unobserved", "ok"}

\* C6 amended: main runs load, generate, print in that order and never
\* attempts generation after a failed load.  When standard output and
\* standard error are open and accept every write, the run ends either with
\* exit status 0, the generated string alone on stdout and nothing on stderr
\* (only if load and generate both succeeded), or with exit status 1, one
\* message on stderr and nothing on stdout (on any failure of load or
\* generate, and only then).  In every run the exit status is 0, 1 or 120;
\* it is 0 only if load, generate and print all succeeded, with nothing on
\* stderr and nothing but the generated string on stdout.
C6_MainOutcomes ==
  /\ IsPrefix(steps, <<"load", "generate", "print">>)
  /\ (LoadDone /\ load_ret.exc # "none") => ~GenerateDone /\ gen_ret = NoGen
  /\ pc # "exit" => exit_status = -1
  /\ (pc = "exit" /\ StreamsOk) =>
       \/ /\ exit_status = 0
          /\ steps = <<"load", "generate", "print">> /\ NoFailure
          /\ stdout = <<gen_ret.val>> /\ stderr = <<>>
       \/ /\ exit_status = 1
          /\ load_ret.exc # "none" \/ gen_ret.exc # "none"
          /\ stderr = <<Message>> /\ stdout = <<>>
  /\ pc = "exit" =>
       /\ exit_status \in {0, 1, 120}
       /\ exit_status = 0 =>
            /\ NoFailure /\ returned = 0 /\ main_exc = "none" /\ stderr = <<>>
            /\ stdout \in {<<>>, <<gen_ret.val>>}
       /\ ~NoFailure => exit_status \in {1, 120}

\* a run on open streams that loaded its catalog, failed to generate, wrote
\* its message and exited
C6_Witness ==
  /\ pc = "exit" /\ exit_status = 1 /\ steps = <<"load", "generate">>
  /\ load_ret.exc = "none" /\ gen_ret.exc # "none"
  /\ err_dev = "ok" /\ stderr = <<Message>> /\ stdout = <<>>

\* C7: loading a path that does not exist fails with the module's
\* FileNotFoundError, a UserAgentError.
C7_MissingFile ==
  (LoadDone /\ ~json_file.exists)
    => load_ret.exc = "FileNotFoundError" /\ IsUserAgentError(load_ret.exc)

C7_Witness ==
  LoadDone /\ ~json_file.exists /\ load_ret.exc = "FileNotFoundError" /\ pc = "except"

\* C8: loading a file that exists but cannot be read fails with a
\* permission-denied condition of its own: a UserAgentError that is none of
\* file-not-found, malformed-format, empty-data, invalid-generated-output or
\* the bare UserAgentError (the claim as stated; the code breaks it).
C8_PermissionDeniedIsDistinct ==
  (LoadDone /\ json_file.exists /\ ~json_file.readable)
    => /\ load_ret.exc # "none"
       /\ load_ret.exc \notin UserAgentErrors

\* some browser has a non-empty versions list and an OS entry with one
SomeUsableBrowser(d) ==
  /\ IsDict(d) /\ Has(d, "browsers") /\ IsList(Get(d, "browsers"))
  /\ \E i \in 1..Len(Get(d, "browsers").list) :
       LET b == Get(d, "browsers").list[i]
       IN /\ HasNonEmptyList(b, "versions")
          /\ IsDict(b) /\ Has(b, "os") /\ IsList(Get(b, "os"))
          /\ \E j \in 1..Len(Get(b, "os").list) :
               HasNonEmptyList(Get(b, "os").list[j], "versions")

\* every browser with non-empty os and versions lists has an OS entry with
\* a non-empty versions list
NoBrowserWithOnlyEmptyOs(d) ==
  \A i \in 1..Len(Get(d, "browsers").list) :
    LET b == Get(d, "browsers").list[i]
    IN (HasNonEmptyList(b, "versions") /\ HasNonEmptyList(b, "os"))
         => \E j \in 1..Len(Get(b, "os").list) :
              HasNonEmptyList(Get(b, "os").list[j], "versions")

\* the browser and the OS entry used, if any, have at least one version
UsedHaveVersions ==
  /\ IsDict(gen_ret.browser) => HasNonEmptyList(gen_ret.browser, "versions")
  /\ IsDict(gen_ret.os_info) => HasNonEmptyList(gen_ret.os_info, "versions")

\* C9 as stated: if some browser has a non-empty versions list and an OS
\* entry with a non-empty versions list, generation never fails with
\* EmptyDataError and uses a browser and an OS that have versions.
C9_Original ==
  (pc = "generate_returned" /\ GenerateDone /\ SomeUsableBrowser(data))
    => gen_ret.exc # "EmptyDataError" /\ UsedHaveVersions

\* C9 amended: if some browser has a non-empty versions list and an OS entry
\* with a non-empty versions list, and every browser with non-empty os and
\* versions lists has such an OS entry, generation never fails with
\* EmptyDataError and uses a browser and an OS that have versions.
C9_ExcludedNotFatal ==
  (pc = "generate_returned" /\ GenerateDone /\ SomeUsableBrowser(data)
     /\ NoBrowserWithOnlyEmptyOs(data))
    => gen_ret.exc # "EmptyDataError" /\ UsedHaveVersions

\* generation succeeded on a catalog holding a browser without versions and
\* an OS entry without versions
C9_Witness ==
  /\ pc = "generate_returned" /\ GenerateDone /\ SomeUsableBrowser(data)
  /\ NoBrowserWithOnlyEmptyOs(data)
  /\ \E i \in 1..Len(Get(data, "browsers").list) :
       LET b == Get(data, "browsers").list[i]
       IN IsDict(b) /\ Has(b, "versions") /\ Get(b, "versions") = List(<<>>)
  /\ \E i \in 1..Len(Get(data, "browsers").list) :
       LET b == Get(data, "browsers").list[i]
       IN /\ HasNonEmptyList(b, "os")
          /\ \E j \in 1..Len(Get(b, "os").list) :
               LET o == Get(b, "os").list[j]
               IN IsDict(o) /\ Has(o, "versions") /\ Get(o, "versions") = List(<<>>)
  /\ gen_ret.exc = "none" /\ UsedHaveVersions

\* C10: a catalog load_user_agents returned has only browsers that pass the
\* generator's browser filter and only OS entries that pass its OS filter,
\* and generation on it never fails with EmptyDataError.
C10_NoEmptyDataAfterLoad ==
  (LoadDone /\ load_ret.exc = "none")
    => /\ \A i \in 1..Len(Get(data, "browsers").list) :
            LET b == Get(data, "browsers").list[i]
            IN /\ IsFeasibleBrowser(b)
               /\ \A j \in 1..Len(Get(b, "os").list) :
                    IsFeasibleOs(Get(b, "os").list[j])
       /\ gen_ret.exc # "EmptyDataError"

\* generation ran on a loaded catalog with several browsers and OS entries
C10_Witness ==
  /\ LoadDone /\ load_ret.exc = "none" /\ GenerateDone
  /\ Len(Get(data, "browsers").list) >= 2
  /\ \E i \in 1..Len(Get(data, "browsers").list) :
       Len(Get(Get(data, "browsers").list[i], "os").list) >= 2

====
